---- MODULE Spec2Model ----
(***************************************************************************)
(* Model of mcp-lab/templates/python/basic/server.py: the SampleTool tool  *)
(* (its execute method on Python values) and the main bootstrap sequence.  *)
(* Strings are sequences of one-character strings, so that formatting,     *)
(* concatenation, trimming and truncation are all observable.              *)
(***************************************************************************)
EXTENDS Integers, Sequences, FiniteSets, TLC

VARIABLES
    pc,       \* position of main: line about to run, or "started"/"done"/"failed"
    server,   \* the McpServer object built at lines 20-23 (NoServer before)
    tool,     \* the SampleTool instance built at line 26 (NoTool before)
    stdout,   \* lines written to standard output
    trace,    \* the calls main has made so far, in order
    raised,   \* the call whose exception is propagating out of main, or "none"
    first,    \* an earlier execute call kept for comparison (NoCall if none)
    last,     \* the most recent execute call (NoCall if none)
    between   \* number of execute calls made after `first` and before `last`

vars == <<pc, server, tool, stdout, trace, raised, first, last, between>>

----------------------------------------------------------------------------
\* Bounds of the explored input space.

MaxLen == 1        \* longest generated input string
MaxBetween == 1    \* most calls counted between two compared calls

----------------------------------------------------------------------------
\* Python values that a parameter mapping can hold.

Alphabet == {"a", " "}
IntSamples == {-1, 0, 10}
ListSamples == {<<>>, <<1, 0>>}

SeqsUpTo(S, n) == UNION {[1..k -> S] : k \in 0..n}

StrV(s) == [t |-> "str", s |-> s]
NoneV == [t |-> "NoneType"]
BoolV(b) == [t |-> "bool", b |-> b]
IntV(n) == [t |-> "int", n |-> n]
ListV(l) == [t |-> "list", l |-> l]

\* String literals of the source, as character sequences.
Prefix == <<"P","r","o","c","e","s","s","e","d",":"," ">>
Fallback == <<"N","o"," ","i","n","p","u","t"," ","p","r","o","v","i","d","e","d">>
Hello == <<"h","e","l","l","o">>
PaddedHi == <<" ","H","i"," ">>
EmptyStr == <<>>

toolName == "{{toolName}}"
toolDescription == "{{toolDescription}}"
serverName == "{{name}}"
serverVersion == "1.0.0"

Strings == SeqsUpTo(Alphabet, MaxLen) \cup {Hello, PaddedHi, Fallback}

Values ==
    {StrV(s) : s \in Strings}
    \cup {NoneV}
    \cup {BoolV(b) : b \in BOOLEAN}
    \cup {IntV(n) : n \in IntSamples}
    \cup {ListV(l) : l \in ListSamples}

\* Parameter mappings: "input" is optional, and so is one unrelated key.
OtherKey == "verbose"
OtherValues == {StrV(Hello), IntV(0)}

Mappings ==
    UNION {
        { [k \in D |-> IF k = "input" THEN v ELSE o] : v \in Values, o \in OtherValues }
        : D \in SUBSET {"input", OtherKey} }

----------------------------------------------------------------------------
\* Python semantics used by execute.

\* bool(v): the truth value `or` tests.
truthy(v) ==
    CASE v.t = "str" -> Len(v.s) > 0
      [] v.t = "NoneType" -> FALSE
      [] v.t = "bool" -> v.b
      [] v.t = "int" -> v.n # 0
      [] v.t = "list" -> Len(v.l) > 0

DigitChars == <<"0","1","2","3","4","5","6","7","8","9">>

RECURSIVE digits(_)
digits(n) ==
    IF n < 10 THEN <<DigitChars[n + 1]>>
    ELSE digits(n \div 10) \o <<DigitChars[(n % 10) + 1]>>

intStr(n) == IF n < 0 THEN <<"-">> \o digits(-n) ELSE digits(n)

RECURSIVE joinInts(_)
joinInts(l) ==
    IF Len(l) = 0 THEN <<>>
    ELSE IF Len(l) = 1 THEN intStr(l[1])
    ELSE intStr(l[1]) \o <<",", " ">> \o joinInts(Tail(l))

\* format(v, ""), which an f-string replacement field applies: str(v).
str(v) ==
    CASE v.t = "str" -> v.s
      [] v.t = "NoneType" -> <<"N","o","n","e">>
      [] v.t = "bool" -> IF v.b THEN <<"T","r","u","e">> ELSE <<"F","a","l","s","e">>
      [] v.t = "int" -> intStr(v.n)
      [] v.t = "list" -> <<"[">> \o joinInts(v.l) \o <<"]">>

\* dict.get(key, default)
get(params, key, default) ==
    IF key \in DOMAIN params THEN params[key] ELSE default

----------------------------------------------------------------------------
\* SampleTool.execute.  The outcome records the returned string, the
\* exception raised ("none" on a normal return), and the tool instance and
\* the caller's mapping as the call leaves them.

execute_strip(self, params) ==
    LET input_text == get(params, "input", StrV(EmptyStr))
        RECURSIVE lstrip(_)
        lstrip(s) == IF Len(s) > 0 /\ Head(s) = " " THEN lstrip(Tail(s)) ELSE s
        RECURSIVE rstrip(_)
        rstrip(s) == IF Len(s) > 0 /\ s[Len(s)] = " "
                     THEN rstrip(SubSeq(s, 1, Len(s) - 1)) ELSE s
        clean == IF input_text.t = "str" THEN StrV(rstrip(lstrip(input_text.s)))
                 ELSE input_text
        shown == IF truthy(clean) THEN clean ELSE StrV(Fallback)
    IN  [ret |-> Prefix \o str(shown), exc |-> "none", self |-> self, params |-> params]

execute_noFallback(self, params) ==
    LET input_text == get(params, "input", StrV(EmptyStr))
    IN  [ret |-> Prefix \o str(input_text), exc |-> "none", self |-> self, params |-> params]

execute_emptyOnly(self, params) ==
    LET input_text == get(params, "input", StrV(EmptyStr))
        shown == IF input_text = StrV(EmptyStr) THEN StrV(Fallback) ELSE input_text
    IN  [ret |-> Prefix \o str(shown), exc |-> "none", self |-> self, params |-> params]

execute_subscript(self, params) ==
    IF "input" \in DOMAIN params
    THEN LET input_text == params["input"]
             shown == IF truthy(input_text) THEN input_text ELSE StrV(Fallback)
         IN  [ret |-> Prefix \o str(shown), exc |-> "none", self |-> self, params |-> params]
    ELSE [ret |-> EmptyStr, exc |-> "KeyError", self |-> self, params |-> params]

execute_remember(self, params) ==
    LET input_text == get(params, "input", StrV(EmptyStr))
        remembered == IF "last_input" \in DOMAIN self THEN self.last_input
                      ELSE StrV(Fallback)
        shown == IF truthy(input_text) THEN input_text ELSE remembered
    IN  [ret |-> Prefix \o str(shown), exc |-> "none",
         self |-> [name |-> self.name, description |-> self.description,
                   last_input |-> shown],
         params |-> params]

execute_setdefault(self, params) ==
    LET stored == [k \in DOMAIN params \cup {"input"} |->
                      IF k \in DOMAIN params THEN params[k] ELSE StrV(EmptyStr)]
        input_text == stored["input"]
        shown == IF truthy(input_text) THEN input_text ELSE StrV(Fallback)
    IN  [ret |-> Prefix \o str(shown), exc |-> "none", self |-> self, params |-> stored]

execute_otherKey(self, params) ==
    LET input_text == get(params, "input", get(params, OtherKey, StrV(EmptyStr)))
        shown == IF truthy(input_text) THEN input_text ELSE StrV(Fallback)
    IN  [ret |-> Prefix \o str(shown), exc |-> "none", self |-> self, params |-> params]

execute_otherFallback(self, params) ==
    LET input_text == get(params, "input", StrV(EmptyStr))
        shown == IF truthy(input_text) THEN input_text
                 ELSE StrV(<<"N","o"," ","i","n","p","u","t">>)
    IN  [ret |-> Prefix \o str(shown), exc |-> "none", self |-> self, params |-> params]

execute(self, params) ==
    LET input_text == get(params, "input", StrV(EmptyStr))
        shown == IF truthy(input_text) THEN input_text ELSE StrV(Fallback)
    IN  [ret |-> Prefix \o str(shown), exc |-> "none", self |-> self, params |-> params]

----------------------------------------------------------------------------
\* State.

NoServer == [built |-> FALSE]
NoTool == [built |-> FALSE]
NoCall == [made |-> FALSE]

SampleTool == [name |-> toolName, description |-> toolDescription]
StartupLine == <<"Starting ", serverName, " MCP server...">>
MainCalls == <<"McpServer", "SampleTool", "register_tool", "print", "start">>

Init ==
    /\ pc = "construct"
    /\ server = NoServer
    /\ tool = NoTool
    /\ stdout = <<>>
    /\ trace = <<>>
    /\ raised = "none"
    /\ first = NoCall
    /\ last = NoCall
    /\ between = 0

----------------------------------------------------------------------------
\* main.  Each external call either returns or raises; main has no
\* try/except, so a raised exception ends it.

Construct ==
    /\ pc = "construct"
    /\ trace' = Append(trace, "McpServer")
    /\ \/ /\ server' = [built |-> TRUE, name |-> serverName,
                        version |-> serverVersion, tools |-> <<>>]
          /\ pc' = "register"
          /\ UNCHANGED raised
       \/ /\ raised' = "McpServer"
          /\ pc' = "failed"
          /\ UNCHANGED server
    /\ UNCHANGED <<tool, stdout, first, last, between>>

Register_swallow ==
    /\ pc = "register"
    /\ tool' = SampleTool
    /\ trace' = trace \o <<"SampleTool", "register_tool">>
    /\ \/ /\ server' = [server EXCEPT !.tools = Append(@, "SampleTool")]
          /\ pc' = "print"
          /\ UNCHANGED raised
       \/ /\ raised' = "register_tool"
          /\ pc' = "print"
          /\ UNCHANGED server
    /\ UNCHANGED <<stdout, first, last, between>>

Register ==
    /\ pc = "register"
    /\ tool' = SampleTool
    /\ trace' = trace \o <<"SampleTool", "register_tool">>
    /\ \/ /\ server' = [server EXCEPT !.tools = Append(@, "SampleTool")]
          /\ pc' = "print"
          /\ UNCHANGED raised
       \/ /\ raised' = "register_tool"
          /\ pc' = "failed"
          /\ UNCHANGED server
    /\ UNCHANGED <<stdout, first, last, between>>

PrintStartup ==
    /\ pc = "print"
    /\ stdout' = Append(stdout, StartupLine)
    /\ trace' = Append(trace, "print")
    /\ pc' = "start"
    /\ UNCHANGED <<server, tool, raised, first, last, between>>

Start_early ==
    /\ pc \in {"print", "start"}
    /\ trace' = Append(trace, "start")
    /\ pc' = "started"
    /\ UNCHANGED <<server, tool, stdout, raised, first, last, between>>

Start ==
    /\ pc = "start"
    /\ trace' = Append(trace, "start")
    /\ pc' = "started"
    /\ UNCHANGED <<server, tool, stdout, raised, first, last, between>>

\* start() blocks while the server runs; it ends by returning or raising.
StartReturns ==
    /\ pc = "started"
    /\ pc' = "done"
    /\ UNCHANGED <<server, tool, stdout, trace, raised, first, last, between>>

StartRaises ==
    /\ pc = "started"
    /\ raised' = "start"
    /\ pc' = "failed"
    /\ UNCHANGED <<server, tool, stdout, trace, first, last, between>>

\* While start() runs, the server calls the registered tool's execute with a
\* parameter mapping.  `first` keeps one earlier call, chosen freely, and
\* `between` counts the calls made since it.
Execute ==
    /\ pc = "started"
    /\ \E p \in Mappings, keep \in BOOLEAN :
          LET r == execute(tool, p) IN
          /\ keep => first # NoCall /\ between < MaxBetween
          /\ last' = [made |-> TRUE, before |-> p, after |-> r.params,
                      ret |-> r.ret, exc |-> r.exc]
          /\ tool' = r.self
          /\ first' = IF keep THEN first ELSE last
          /\ between' = IF keep THEN between + 1 ELSE 0
    /\ UNCHANGED <<pc, server, stdout, trace, raised>>

Next ==
    \/ Construct
    \/ Register
    \/ PrintStartup
    \/ Start
    \/ StartReturns
    \/ StartRaises
    \/ Execute

Spec == Init /\ [][Next]_vars

----------------------------------------------------------------------------
\* Helpers for stating properties of recorded calls.

Made(c) == c # NoCall
HasInput(c) == "input" \in DOMAIN c.before
InputOf(c) == c.before["input"]
NoInputText == Prefix \o Fallback
IsPrefixOf(s, t) == Len(s) <= Len(t) /\ SubSeq(t, 1, Len(s)) = s
Calls == {first, last}
MappingWith(v, o) == [k \in {"input", OtherKey} |-> IF k = "input" THEN v ELSE o]
OnlyInput(v) == [k \in {"input"} |-> v]
OnlyOther(o) == [k \in {OtherKey} |-> o]
Empty == [k \in {} |-> NoneV]
SameInput(p, q) ==
    /\ ("input" \in DOMAIN p) = ("input" \in DOMAIN q)
    /\ "input" \in DOMAIN p => p["input"] = q["input"]

----------------------------------------------------------------------------
\* C1: whenever "input" maps to a non-empty string s, execute returns
\* exactly "Processed: " followed by s unchanged, whatever else the mapping
\* holds.
C1_NonEmptyStringEchoed ==
    \A c \in Calls :
        (Made(c) /\ HasInput(c) /\ InputOf(c).t = "str" /\ Len(InputOf(c).s) > 0)
            => c.exc = "none" /\ c.ret = Prefix \o InputOf(c).s

C1_Witness ==
    /\ Made(last)
    /\ last.before = MappingWith(StrV(PaddedHi), IntV(0))
    /\ last.ret = Prefix \o <<" ","H","i"," ">>
    /\ Made(first)
    /\ first.before = OnlyInput(StrV(Hello))
    /\ first.ret = Prefix \o Hello

\* C2: with no "input" key, or with "input" mapped to the empty string,
\* execute returns exactly "Processed: No input provided".
C2_MissingOrEmptyGivesFallback ==
    \A c \in Calls :
        (Made(c) /\ (~HasInput(c) \/ InputOf(c) = StrV(EmptyStr)))
            => c.exc = "none" /\ c.ret = NoInputText

C2_Witness ==
    /\ Made(first) /\ first.before = Empty /\ first.ret = NoInputText
    /\ Made(last) /\ last.before = OnlyInput(StrV(EmptyStr)) /\ last.ret = NoInputText

\* C3 as stated: falsy or absent input gives the fallback text, a truthy
\* value is used verbatim, and the result is "Processed: No input provided"
\* exactly when "input" is absent or falsy.
C3_FallbackExactlyWhenFalsy ==
    \A c \in Calls :
        Made(c) =>
            /\ (HasInput(c) /\ truthy(InputOf(c))) => c.ret = Prefix \o str(InputOf(c))
            /\ (c.ret = NoInputText) <=> (~HasInput(c) \/ ~truthy(InputOf(c)))

\* C3 amended: falsy or absent input gives the fallback text, a truthy value
\* is used verbatim, and the result is "Processed: No input provided" exactly
\* when "input" is absent, falsy, or a value whose text is "No input provided".
C3_FallbackWhenFalsyOrSameText ==
    \A c \in Calls :
        Made(c) =>
            /\ (HasInput(c) /\ truthy(InputOf(c))) => c.ret = Prefix \o str(InputOf(c))
            /\ (c.ret = NoInputText) <=>
                   (~HasInput(c) \/ ~truthy(InputOf(c)) \/ str(InputOf(c)) = Fallback)

C3_Witness ==
    /\ Made(first) /\ first.before = OnlyInput(IntV(0)) /\ first.ret = NoInputText
    /\ Made(last) /\ last.before = OnlyInput(BoolV(TRUE))
    /\ last.ret = Prefix \o <<"T","r","u","e">>

\* C4: every call returns normally, and its result starts with
\* "Processed: " and is strictly longer than that prefix.
C4_ResultNonEmpty ==
    \A c \in Calls :
        Made(c) =>
            /\ c.exc = "none"
            /\ IsPrefixOf(Prefix, c.ret)
            /\ Len(c.ret) > Len(Prefix)

C4_Witness ==
    /\ Made(last) /\ last.before = OnlyInput(StrV(EmptyStr))
    /\ Len(last.ret) > Len(Prefix)
    /\ Made(first) /\ first.before = OnlyOther(StrV(Hello))
    /\ first.exc = "none"

\* C5: two calls on the same tool instance with the same mapping return the
\* same result, however many other calls were made in between.
C5_SameMappingSameResult ==
    (Made(first) /\ Made(last) /\ first.before = last.before)
        => first.ret = last.ret /\ first.exc = last.exc

C5_Witness ==
    /\ Made(first) /\ Made(last)
    /\ first.before = last.before
    /\ first.before = Empty
    /\ between >= 1
    /\ first.ret = last.ret

\* C6: a call leaves the mapping it was given with the same keys and values,
\* and leaves the tool's name and description as they were.
C6_NoSideEffects ==
    /\ \A c \in Calls : Made(c) => c.after = c.before
    /\ tool # NoTool => tool = SampleTool

C6_Witness ==
    /\ Made(last)
    /\ last.before = OnlyOther(IntV(0))
    /\ "input" \notin DOMAIN last.after
    /\ tool = SampleTool

\* C7: main constructs the server (name, version "1.0.0"), registers one
\* SampleTool, writes the one startup line, then invokes start(), in that
\* order and each at most once; start() is never invoked without a
\* registered tool or before the startup line, and nothing follows it.
C7_MainOrder ==
    /\ IsPrefixOf(trace, MainCalls)
    /\ server # NoServer =>
          /\ server.name = serverName
          /\ server.version = "1.0.0"
          /\ IsPrefixOf(server.tools, <<"SampleTool">>)
    /\ IsPrefixOf(stdout, <<StartupLine>>)
    /\ (Len(trace) > 0 /\ trace[Len(trace)] = "start") =>
          /\ server # NoServer
          /\ server.tools = <<"SampleTool">>
          /\ tool = SampleTool
          /\ stdout = <<StartupLine>>
    /\ pc \in {"started", "done"} => trace = MainCalls

C7_Witness ==
    /\ pc = "started"
    /\ trace = MainCalls
    /\ server.version = "1.0.0"
    /\ server.tools = <<"SampleTool">>
    /\ stdout = << <<"Starting ", "{{name}}", " MCP server...">> >>

\* C8: an exception raised by server construction, tool registration or
\* start() is not caught: main is in the failed state at that call, which is
\* the last call it made, and takes no further step; after a failed
\* construction or registration the startup line is not written and start()
\* is not invoked, and a failed start() is not invoked again.
C8_FailurePropagates ==
    /\ [](raised # "none" =>
            /\ pc = "failed"
            /\ trace[Len(trace)] = raised
            /\ raised \in {"McpServer", "register_tool"} =>
                  /\ stdout = <<>>
                  /\ \A i \in 1..Len(trace) : trace[i] # "start"
            /\ raised = "start" =>
                  Cardinality({i \in 1..Len(trace) : trace[i] = "start"}) = 1)
    /\ [][pc = "failed" => UNCHANGED vars]_vars

C8_Witness ==
    /\ pc = "failed"
    /\ raised = "register_tool"
    /\ trace = <<"McpServer", "SampleTool", "register_tool">>
    /\ stdout = <<>>

\* C9: two mappings that agree on "input" (both lack it, or both map it to
\* the same value) give the same result, whatever their other entries.
C9_OnlyInputRead ==
    (Made(first) /\ Made(last) /\ SameInput(first.before, last.before))
        => first.ret = last.ret /\ first.exc = last.exc

C9_Witness ==
    /\ Made(first) /\ Made(last)
    /\ first.before = OnlyOther(StrV(Hello))
    /\ last.before = Empty
    /\ first.ret = last.ret

\* C10: an "input" that is the literal string "No input provided" gives
\* "Processed: No input provided", the same result as a missing or empty
\* "input".
C10_FallbackTextCollides ==
    \A c \in Calls, d \in Calls :
        (/\ Made(c) /\ HasInput(c) /\ InputOf(c) = StrV(Fallback)
         /\ Made(d) /\ (~HasInput(d) \/ InputOf(d) = StrV(EmptyStr)))
            => c.ret = NoInputText /\ d.ret = c.ret

C10_Witness ==
    /\ Made(first) /\ first.before = Empty
    /\ Made(last) /\ last.before = OnlyInput(StrV(Fallback))
    /\ first.ret = last.ret
    /\ first.before # last.before

====
